---- MODULE Spec2Model ----
(***************************************************************************)
(* Model of Scripts/atacr_download_data.py (OBStools): the station loop,   *)
(* the day loop, the three channel-set branches (H-only, P-only, both),    *)
(* the data-centre requests, the length validation, the preprocessing      *)
(* sequence and the SAC file writes.                                       *)
(*                                                                         *)
(* Strings are sequences of one-character strings, so that file names and  *)
(* channel strings are built exactly as the script concatenates them.      *)
(* Times are whole seconds counted from 2011-12-31T00:00:00; sampling      *)
(* rates are in thousandths of a hertz.                                    *)
(***************************************************************************)
EXTENDS Integers, Sequences, FiniteSets, TLC

VARIABLES
    opts,       \* parsed options: channels, ovr, startT, endT, stkeys
    stkeys,     \* station keys selected for the run, in processing order
    ik,         \* position of the station loop in stkeys
    location,   \* sta.location of every station of the database
    dirs,       \* directories present under DATA/
    client,     \* number of data-centre clients established so far
    tstart,     \* search start time of the current station
    tend,       \* search end time of the current station
    t1,         \* start of the current day window
    t2,         \* end of the current day window
    pc,         \* position of the script
    sth,        \* seismic stream of the current window
    stp,        \* pressure stream of the current window
    pstep,      \* next preprocessing call of the current window
    iters,      \* passes of the day loop completed for the current station
    fs,         \* SAC files present on disk
    win,        \* the window <<t1, t2>> of the iteration last started
    reqs,       \* get_waveforms calls of the iteration last started
    fetched,    \* the streams as returned to that iteration, until it rejects them
    wrote,      \* writes of the iteration last started
    outcome     \* how the iteration last started ended

vars == <<opts, stkeys, ik, location, dirs, client, tstart, tend, t1, t2,
          pc, sth, stp, pstep, iters, fs, win, reqs, fetched, wrote, outcome>>

-----------------------------------------------------------------------------
(* Bounds of the model *)

\* sample counts of fetched traces range over expected-MaxOff .. expected+MaxOff
MaxOff == 2

\* --end takes the values k * 12 h for k in 0 .. MaxHalf, --start those of
\* them that are midnights
MaxHalf == 4

-----------------------------------------------------------------------------
(* Values *)

\* the value None of an option that was not given
NoTime == -1

\* dt = 3600.*24.
dt == 86400

\* --sampling-rate default 5. (in mHz)
new_sampling_rate == 5 * 1000

\* calendar date of time 0: (year, day of year)
Epoch == <<2011, 365>>

\* sampling rates a data centre delivers (mHz): 1 Hz, and 1.001 Hz for which
\* dt * rate is not a whole number
Rates == {1000, 1001}

Times == {k * (dt \div 2) : k \in 0..MaxHalf}

Midnights == {t \in Times : t % dt = 0}

\* station keys and channel codes as strings
KeyA == <<"X", "X", ".", "A">>
KeyB == <<"X", "X", ".", "B">>

\* the station database: two stations; B is recorded with a lower-case
\* channel code and an empty location code
db ==
    [k \in {KeyA, KeyB} |->
        IF k = KeyA
        THEN [network |-> <<"X", "X">>, station |-> <<"A">>,
              channel |-> <<"B", "H">>,
              startdate |-> dt, enddate |-> 2 * dt]
        ELSE [network |-> <<"X", "X">>, station |-> <<"B">>,
              channel |-> <<"h", "h">>,
              startdate |-> dt, enddate |-> dt + dt \div 2]]

\* db.keys(), in the order of the dictionary
allkeys == <<KeyA, KeyB>>

\* sta.location as stored in the database
location0 == [k \in {KeyA, KeyB} |-> IF k = KeyA THEN <<>> ELSE <<<<>>, <<"0", "1">>>>]

-----------------------------------------------------------------------------
(* String helpers *)

LowerCase ==
    <<"a", "b", "c", "d", "e", "f", "g", "h", "i", "j", "k", "l", "m",
      "n", "o", "p", "q", "r", "s", "t", "u", "v", "w", "x", "y", "z">>

UpperCase ==
    <<"A", "B", "C", "D", "E", "F", "G", "H", "I", "J", "K", "L", "M",
      "N", "O", "P", "Q", "R", "S", "T", "U", "V", "W", "X", "Y", "Z">>

\* str.upper()
upper(s) ==
    [i \in 1..Len(s) |->
        IF \E j \in 1..26 : LowerCase[j] = s[i]
        THEN UpperCase[CHOOSE j \in 1..26 : LowerCase[j] = s[i]]
        ELSE s[i]]

Digits == <<"0", "1", "2", "3", "4", "5", "6", "7", "8", "9">>

\* str(n) for n >= 0
RECURSIVE str(_)
str(n) ==
    IF n < 10 THEN <<Digits[n + 1]>>
    ELSE str(n \div 10) \o <<Digits[(n % 10) + 1]>>

\* str.zfill(w)
RECURSIVE zfill(_, _)
zfill(s, w) == IF Len(s) >= w THEN s ELSE zfill(<<"0">> \o s, w)

\* skey in s
IsSubstring(skey, s) ==
    \E i \in 0..(Len(s) - Len(skey)) :
        \A j \in 1..Len(skey) : s[i + j] = skey[j]

-----------------------------------------------------------------------------
(* Calendar: UTCDateTime.year and UTCDateTime.julday *)

IsLeap(y) == (y % 4 = 0 /\ y % 100 # 0) \/ y % 400 = 0

DaysInYear(y) == IF IsLeap(y) THEN 366 ELSE 365

RECURSIVE YearDay(_, _)
YearDay(y, j) ==
    IF j > DaysInYear(y) THEN YearDay(y + 1, j - DaysInYear(y)) ELSE <<y, j>>

year(t) == YearDay(Epoch[1], Epoch[2] + t \div dt)[1]

julday(t) == YearDay(Epoch[1], Epoch[2] + t \div dt)[2]

-----------------------------------------------------------------------------
(* Options and station selection *)

\* the --keys lists tried: none, and two partial keys of station A
KeyFilters == {<<>>, <<<<"A">>, <<".", "A">>>>}

\* [s for s in allkeys if skey in s]
RECURSIVE Matching(_, _)
Matching(skey, keys) ==
    IF keys = <<>> THEN <<>>
    ELSE (IF IsSubstring(skey, Head(keys)) THEN <<Head(keys)>> ELSE <<>>)
         \o Matching(skey, Tail(keys))

\* for skey in opts.stkeys: stkeys.extend(...)
RECURSIVE ExtractKeys(_)
ExtractKeys(filter) ==
    IF filter = <<>> THEN <<>>
    ELSE Matching(Head(filter), allkeys) \o ExtractKeys(Tail(filter))

SelectedKeys(filter) ==
    IF Len(filter) > 0 THEN ExtractKeys(filter) ELSE allkeys

HOnly == "P" \notin opts.channels
POnly == ~HOnly /\ "H" \notin opts.channels
Both == ~HOnly /\ ~POnly

stkey == stkeys[ik]
sta == db[stkey]

-----------------------------------------------------------------------------
(* File names *)

\* 'DATA/' + stkey + '/'
datapath(key) == <<"D", "A", "T", "A", "/">> \o key \o <<"/">>

\* str(t1.year).zfill(4)+'.'+str(t1.julday).zfill(3)+'.'
tstamp(t) == zfill(str(year(t)), 4) \o <<".">> \o zfill(str(julday(t)), 3) \o <<".">>

\* datapath + tstamp + '.' + sta.channel + '<c>.SAC'
FileName(key, t, c) ==
    datapath(key) \o tstamp(t) \o <<".">> \o db[key].channel \o <<c>>
        \o <<".", "S", "A", "C">>

file1 == FileName(stkey, t1, "1")
file2 == FileName(stkey, t1, "2")
fileZ == FileName(stkey, t1, "Z")
fileP == FileName(stkey, t1, "H")

\* glob.glob(f)
glob(f) == f \in fs

\* variant: only the vertical file is looked for
FilesExistOnlyZ == glob(fileZ)

\* the files whose presence makes the script skip the day
FilesExist ==
    IF HOnly THEN glob(fileZ) /\ glob(file1) /\ glob(file2)
    ELSE IF POnly THEN glob(fileZ) /\ glob(fileP)
    ELSE glob(fileZ) /\ glob(file1) /\ glob(file2) /\ glob(fileP)

-----------------------------------------------------------------------------
(* Streams and traces *)

Trace(c, n, r) == [component |-> c, npts |-> n, sampling_rate |-> r, tag |-> "-"]

EmptyStream == [traces |-> <<>>, ops |-> <<>>]

\* int(dt * sampling_rate)
ExpectedCount(r) == (dt * r) \div 1000

Offsets == (0 - MaxOff)..MaxOff

\* a horizontal trace is as long as the vertical one, one sample longer, or
\* absent; at most one of the three traces differs or is absent
Variants == {"same", "longer", "missing"}

Shapes ==
    {<<v1, v2, z>> \in Variants \X Variants \X BOOLEAN :
        Cardinality({v1, v2, IF z THEN "same" ELSE "missing"} \ {"same"}) = 0
        \/ (v1 # "same" /\ v2 = "same" /\ z)
        \/ (v1 = "same" /\ v2 # "same" /\ z)
        \/ (v1 = "same" /\ v2 = "same" /\ ~z)}

Horizontal(c, n, r, v) ==
    IF v = "missing" THEN <<>>
    ELSE <<Trace(c, IF v = "same" THEN n ELSE n + 1, r)>>

\* what the data centre can return for '<CH>1,<CH>2,<CH>Z': the traces
\* available among the three, in channel order
SeismicStreams3 ==
    {[traces |-> Horizontal("1", ExpectedCount(r) + o, r, sh[1])
                 \o Horizontal("2", ExpectedCount(r) + o, r, sh[2])
                 \o (IF sh[3] THEN <<Trace("Z", ExpectedCount(r) + o, r)>> ELSE <<>>),
      ops |-> <<>>] :
        r \in Rates, o \in Offsets, sh \in Shapes}

\* what the data centre can return for '<CH>Z'
SeismicStreamsZ ==
    {[traces |-> <<Trace("Z", ExpectedCount(r) + o, r)>>, ops |-> <<>>] :
        r \in Rates, o \in Offsets}

\* what the data centre can return for '??H'
PressureStreams ==
    {[traces |-> <<Trace("H", ExpectedCount(r) + o, r)>>, ops |-> <<>>] :
        r \in Rates, o \in Offsets}

\* Stream.select(component=c)
select(st, c) == SelectSeq(st.traces, LAMBDA tr : tr.component = c)

\* len(st.select(component=c)[0].data)
ll(st, c) == select(st, c)[1].npts

\* variant: the channel code is used as stored, not in upper case
channelsAsStored ==
    IF POnly THEN sta.channel \o <<"Z">>
    ELSE sta.channel \o <<"1", ",">> \o sta.channel \o <<"2", ",">>
         \o sta.channel \o <<"Z">>

\* the channel string of the seismic request
channels ==
    IF POnly THEN upper(sta.channel) \o <<"Z">>
    ELSE upper(sta.channel) \o <<"1", ",">> \o upper(sta.channel) \o <<"2", ",">>
         \o upper(sta.channel) \o <<"Z">>

\* one get_waveforms call: its arguments, and whether it returned
Request(kind, chan, ok) ==
    [kind |-> kind, network |-> sta.network, station |-> sta.station,
     location |-> location[stkey][1], channel |-> chan,
     starttime |-> t1, endtime |-> t2, ok |-> ok]

\* nothing fetched
NoBundle == [sth |-> EmptyStream, stp |-> EmptyStream]

-----------------------------------------------------------------------------
(* Initial state: options parsed, database loaded, station keys extracted *)

\* files a previous run may have left for station A on its first day
EarlierFiles ==
    {{}, {FileName(KeyA, dt, "Z")},
     {FileName(KeyA, dt, c) : c \in {"Z", "1", "2", "H"}}}

Init ==
    /\ opts \in [channels : {{"H"}, {"P"}, {"H", "P"}},
                 ovr : BOOLEAN,
                 startT : {NoTime} \cup Midnights,
                 endT : {NoTime} \cup Times,
                 stkeys : KeyFilters]
    /\ stkeys = SelectedKeys(opts.stkeys)
    /\ ik = 1
    /\ location = location0
    /\ dirs = {}
    /\ client = 0
    /\ tstart = NoTime
    /\ tend = NoTime
    /\ t1 = NoTime
    /\ t2 = NoTime
    /\ pc = "for"
    /\ sth = EmptyStream
    /\ stp = EmptyStream
    /\ pstep = 0
    /\ iters = 0
    /\ fs \in EarlierFiles
    /\ win = <<NoTime, NoTime>>
    /\ reqs = <<>>
    /\ fetched = NoBundle
    /\ wrote = <<>>
    /\ outcome = "NONE"

-----------------------------------------------------------------------------
(* The station loop *)

\* tstart of lines 159-162
SearchStart(s) == IF opts.startT = NoTime THEN s.startdate ELSE opts.startT

\* tend of lines 165-168
SearchEnd(s) == IF opts.endT = NoTime THEN s.startdate ELSE opts.endT

\* variant: only the start of the search is compared with the lifetime
OutOfRangeStartOnly(s) == SearchStart(s) > s.enddate

\* tstart > sta.enddate or tend < sta.startdate
OutOfRange(s) == SearchStart(s) > s.enddate \/ SearchEnd(s) < s.startdate

\* lines 174-178: an empty list becomes [''], and every '' becomes '--'
Normalised(tlocs) ==
    LET l == IF Len(tlocs) = 0 THEN <<<<>>>> ELSE tlocs
    IN  [il \in 1..Len(l) |-> IF Len(l[il]) = 0 THEN <<"-", "-">> ELSE l[il]]

Iteration == <<win, reqs, fetched, wrote, outcome>>
Streams == <<sth, stp, pstep>>

\* the list of station keys is exhausted
ProgramEnd ==
    /\ pc = "for"
    /\ ik > Len(stkeys)
    /\ pc' = "done"
    /\ UNCHANGED <<opts, stkeys, ik, location, dirs, client, tstart, tend,
                   t1, t2, fs>>
    /\ UNCHANGED Iteration
    /\ UNCHANGED Streams
    /\ UNCHANGED iters

\* lines 143-171: directory, client, search range, and the station is left
StationSkipped ==
    /\ pc = "for"
    /\ ik <= Len(stkeys)
    /\ dirs' = dirs \cup {datapath(stkey)}
    /\ client' = client + 1
    /\ tstart' = SearchStart(sta)
    /\ tend' = SearchEnd(sta)
    /\ OutOfRange(sta)
    /\ ik' = ik + 1
    /\ UNCHANGED <<opts, stkeys, location, t1, t2, pc, fs>>
    /\ UNCHANGED Iteration
    /\ UNCHANGED Streams
    /\ UNCHANGED iters

\* lines 143-201: directory, client, search range, locations, first window
StationBegin ==
    /\ pc = "for"
    /\ ik <= Len(stkeys)
    /\ dirs' = dirs \cup {datapath(stkey)}
    /\ client' = client + 1
    /\ tstart' = SearchStart(sta)
    /\ tend' = SearchEnd(sta)
    /\ ~OutOfRange(sta)
    /\ location' = [location EXCEPT ![stkey] = Normalised(@)]
    /\ t1' = SearchStart(sta)
    /\ t2' = SearchStart(sta) + dt
    /\ pc' = "while"
    /\ iters' = 0
    /\ UNCHANGED <<opts, stkeys, ik, fs>>
    /\ UNCHANGED Iteration
    /\ UNCHANGED Streams

-----------------------------------------------------------------------------
(* The day loop *)

\* variant: only the start of the window is moved
NextDayKeepsT2 ==
    /\ t1' = t1 + dt
    /\ t2' = t2
    /\ pc' = "while"
    /\ sth' = EmptyStream
    /\ stp' = EmptyStream
    /\ pstep' = 0
    /\ iters' = iters + 1

\* t1 += dt; t2 += dt; continue
NextDay ==
    /\ t1' = t1 + dt
    /\ t2' = t2 + dt
    /\ pc' = "while"
    /\ sth' = EmptyStream
    /\ stp' = EmptyStream
    /\ pstep' = 0
    /\ iters' = iters + 1

Frame == UNCHANGED <<opts, stkeys, ik, location, dirs, client, tstart, tend>>

\* variant: the loop is also left when the window ends exactly at tend
WhileExitAtTend ==
    /\ pc = "while"
    /\ ~(t2 < tend)
    /\ ik' = ik + 1
    /\ pc' = "for"
    /\ UNCHANGED <<opts, stkeys, location, dirs, client, tstart, tend, t1, t2, fs>>
    /\ UNCHANGED Iteration
    /\ UNCHANGED Streams
    /\ UNCHANGED iters

\* while t2 <= tend: fails, the next station is taken
WhileExit ==
    /\ pc = "while"
    /\ ~(t2 <= tend)
    /\ ik' = ik + 1
    /\ pc' = "for"
    /\ UNCHANGED <<opts, stkeys, location, dirs, client, tstart, tend, t1, t2, fs>>
    /\ UNCHANGED Iteration
    /\ UNCHANGED Streams
    /\ UNCHANGED iters

\* lines 223-229, 269-275, 324-330: the files of the day exist
SkipExisting ==
    /\ pc = "while"
    /\ t2 <= tend
    /\ FilesExist /\ ~opts.ovr
    /\ win' = <<t1, t2>>
    /\ reqs' = <<>>
    /\ fetched' = NoBundle
    /\ wrote' = <<>>
    /\ outcome' = "SKIPPED_EXISTING"
    /\ NextDay
    /\ UNCHANGED fs
    /\ Frame

\* the day is to be downloaded
BeginDay ==
    /\ pc = "while"
    /\ t2 <= tend
    /\ ~(FilesExist /\ ~opts.ovr)
    /\ win' = <<t1, t2>>
    /\ reqs' = <<>>
    /\ fetched' = NoBundle
    /\ wrote' = <<>>
    /\ outcome' = "PENDING"
    /\ pc' = "get_sth"
    /\ UNCHANGED <<t1, t2, fs>>
    /\ UNCHANGED Streams
    /\ UNCHANGED iters
    /\ Frame

\* client.get_waveforms(channel=channels) returns a stream
GetSeismic ==
    /\ pc = "get_sth"
    /\ \E st \in (IF POnly THEN SeismicStreamsZ ELSE SeismicStreams3) :
          /\ sth' = st
          /\ fetched' = [fetched EXCEPT !.sth = st]
    /\ reqs' = Append(reqs, Request("seismic", channels, TRUE))
    /\ pc' = IF HOnly THEN "lengths" ELSE "get_stp"
    /\ UNCHANGED <<iters, t1, t2, fs, stp, pstep, win, wrote, outcome>>
    /\ Frame

\* variant: after a failed seismic request the same window is requested again
GetSeismicFailsRetry ==
    /\ pc = "get_sth"
    /\ Len(reqs) < 2
    /\ reqs' = Append(reqs, Request("seismic", channels, FALSE))
    /\ fetched' = NoBundle
    /\ outcome' = "FETCH_FAILED"
    /\ UNCHANGED <<pc, iters, t1, t2, fs, win, wrote>>
    /\ UNCHANGED Streams
    /\ Frame

\* client.get_waveforms(channel=channels) raises
GetSeismicFails ==
    /\ pc = "get_sth"
    /\ reqs' = Append(reqs, Request("seismic", channels, FALSE))
    /\ fetched' = NoBundle
    /\ outcome' = "FETCH_FAILED"
    /\ NextDay
    /\ UNCHANGED <<fs, win, wrote>>
    /\ Frame

\* client.get_waveforms(channel='??H') returns a stream
GetPressure ==
    /\ pc = "get_stp"
    /\ \E st \in PressureStreams :
          /\ stp' = st
          /\ fetched' = [fetched EXCEPT !.stp = st]
    /\ reqs' = Append(reqs, Request("pressure", <<"?", "?", "H">>, TRUE))
    /\ pc' = "lengths"
    /\ UNCHANGED <<iters, t1, t2, fs, sth, pstep, win, wrote, outcome>>
    /\ Frame

\* variant: the pressure request raises and the cursor is left where it is
GetPressureFailsSameDay ==
    /\ pc = "get_stp"
    /\ reqs' = Append(reqs, Request("pressure", <<"?", "?", "H">>, FALSE))
    /\ fetched' = NoBundle
    /\ outcome' = "FETCH_FAILED"
    /\ pc' = "while"
    /\ sth' = EmptyStream
    /\ stp' = EmptyStream
    /\ pstep' = 0
    /\ UNCHANGED <<iters, t1, t2, fs, win, wrote>>
    /\ Frame

\* client.get_waveforms(channel='??H') raises
GetPressureFails ==
    /\ pc = "get_stp"
    /\ reqs' = Append(reqs, Request("pressure", <<"?", "?", "H">>, FALSE))
    /\ fetched' = NoBundle
    /\ outcome' = "FETCH_FAILED"
    /\ NextDay
    /\ UNCHANGED <<fs, win, wrote>>
    /\ Frame

-----------------------------------------------------------------------------
(* Length validation *)

\* the components whose first trace the branch reads from sth
Selected == IF POnly THEN {"Z"} ELSE {"Z", "1", "2"}

\* select(...)[0] or stp[0] has nothing to index
IndexError ==
    \/ \E c \in Selected : Len(select(sth, c)) = 0
    \/ ~HOnly /\ Len(stp.traces) = 0

llZ == ll(sth, "Z")
ll1 == ll(sth, "1")
ll2 == ll(sth, "2")
llP == stp.traces[1].npts

\* variant: the second horizontal component is left out of the comparison
NotAllSameWithout2 ==
    IF HOnly THEN llZ # ll1
    ELSE IF POnly THEN llZ # llP
    ELSE llZ # ll1 \/ llZ # llP

\* (llZ != ll1) or (llZ != ll2) [or (llZ != llP)]
NotAllSame ==
    IF HOnly THEN llZ # ll1 \/ llZ # ll2
    ELSE IF POnly THEN llZ # llP
    ELSE llZ # ll1 \/ llZ # ll2 \/ llZ # llP

\* ll = int(dt*sth[0].stats.sampling_rate), with stp[0] in the P-only branch
llExpected ==
    IF POnly THEN ExpectedCount(stp.traces[1].sampling_rate)
    ELSE ExpectedCount(sth.traces[1].sampling_rate)

abs(x) == IF x < 0 THEN 0 - x ELSE x

\* variant: a tolerance of two samples
TooShortBeyond2 == abs(llZ - llExpected) > 2

\* np.abs(llZ - ll) > 1
TooShort == abs(llZ - llExpected) > 1

\* a component is absent: the subscript raises and nothing catches it
LengthsRaise ==
    /\ pc = "lengths"
    /\ IndexError
    /\ pc' = "raised"
    /\ outcome' = "RAISED"
    /\ UNCHANGED <<t1, t2, fs, win, reqs, fetched, wrote>>
    /\ UNCHANGED Streams
    /\ UNCHANGED iters
    /\ Frame

LengthsDiffer ==
    /\ pc = "lengths"
    /\ ~IndexError
    /\ NotAllSame
    /\ outcome' = "VALIDATION_FAILED"
    /\ fetched' = NoBundle
    /\ NextDay
    /\ UNCHANGED <<fs, win, reqs, wrote>>
    /\ Frame

LengthTooShort ==
    /\ pc = "lengths"
    /\ ~IndexError
    /\ ~NotAllSame
    /\ TooShort
    /\ outcome' = "VALIDATION_FAILED"
    /\ fetched' = NoBundle
    /\ NextDay
    /\ UNCHANGED <<fs, win, reqs, wrote>>
    /\ Frame

LengthsOk ==
    /\ pc = "lengths"
    /\ ~IndexError
    /\ ~NotAllSame
    /\ ~TooShort
    /\ pc' = "preprocess"
    /\ pstep' = 1
    /\ UNCHANGED <<iters, t1, t2, fs, sth, stp, win, reqs, fetched, wrote, outcome>>
    /\ Frame

-----------------------------------------------------------------------------
(* Preprocessing *)

\* a call op(args) on the stream st; args are the numbers passed
Call(st, op, args) == [stream |-> st, op |-> op, args |-> args]

\* Stream.filter('lowpass', freq=0.5*opts.new_sampling_rate, corners=2,
\* zerophase=True): the numbers passed are freq and corners
lowpass == <<new_sampling_rate \div 2, 2>>

\* variant: both streams are resampled before they are filtered
PreprocessCallsResampleFirst ==
    <<Call("sth", "remove_response", <<>>)>>
    \o (IF "P" \in opts.channels
        THEN <<Call("stp", "remove_response", <<>>)>> ELSE <<>>)
    \o <<Call("sth", "demean", <<>>), Call("sth", "linear", <<>>),
         Call("sth", "resample", <<new_sampling_rate>>),
         Call("sth", "lowpass", lowpass)>>
    \o (IF "P" \in opts.channels
        THEN <<Call("stp", "demean", <<>>), Call("stp", "linear", <<>>),
               Call("stp", "resample", <<new_sampling_rate>>),
               Call("stp", "lowpass", lowpass)>>
        ELSE <<>>)

\* lines 380-396, in the order of the calls
PreprocessCalls ==
    <<Call("sth", "remove_response", <<>>)>>
    \o (IF "P" \in opts.channels
        THEN <<Call("stp", "remove_response", <<>>)>> ELSE <<>>)
    \o <<Call("sth", "demean", <<>>), Call("sth", "linear", <<>>),
         Call("sth", "lowpass", lowpass),
         Call("sth", "resample", <<new_sampling_rate>>)>>
    \o (IF "P" \in opts.channels
        THEN <<Call("stp", "demean", <<>>), Call("stp", "linear", <<>>),
               Call("stp", "lowpass", lowpass),
               Call("stp", "resample", <<new_sampling_rate>>)>>
        ELSE <<>>)

\* Stream.resample(rate): every trace gets int(npts / (sampling_rate / rate)) samples
resample(tr, rate) ==
    [tr EXCEPT !.npts = (tr.npts * rate) \div tr.sampling_rate,
               !.sampling_rate = rate]

\* one call on a stream, applied to all its traces
Apply(st, c) ==
    [traces |-> IF c.op = "resample"
                THEN [i \in 1..Len(st.traces) |->
                         resample(st.traces[i], c.args[1])]
                ELSE st.traces,
     ops |-> Append(st.ops, [op |-> c.op, args |-> c.args])]

\* the next call of the sequence returns
PreprocessStep ==
    /\ pc = "preprocess"
    /\ LET c == PreprocessCalls[pstep]
       IN  /\ sth' = IF c.stream = "sth" THEN Apply(sth, c) ELSE sth
           /\ stp' = IF c.stream = "stp" THEN Apply(stp, c) ELSE stp
    /\ pstep' = pstep + 1
    /\ pc' = IF pstep = Len(PreprocessCalls) THEN "write" ELSE "preprocess"
    /\ UNCHANGED <<iters, t1, t2, fs, win, reqs, fetched, wrote, outcome>>
    /\ Frame

\* variant: the failure is handled like a failed request
PreprocessRaisesCaught ==
    /\ pc = "preprocess"
    /\ outcome' = "FETCH_FAILED"
    /\ NextDay
    /\ UNCHANGED <<fs, win, reqs, fetched, wrote>>
    /\ Frame

\* the next call of the sequence raises and nothing catches it
PreprocessRaises ==
    /\ pc = "preprocess"
    /\ pc' = "raised"
    /\ outcome' = "RAISED"
    /\ UNCHANGED <<t1, t2, fs, win, reqs, fetched, wrote>>
    /\ UNCHANGED Streams
    /\ UNCHANGED iters
    /\ Frame

-----------------------------------------------------------------------------
(* Writing *)

\* utils.update_stats(tr, stla, stlo, stel, cha): the trace with the station
\* coordinates and the component tag cha attached
update_stats(tr, cha) == [tr EXCEPT !.tag = cha]

\* tr.write(file, format='sac')
Written(tr, file) == [path |-> file, trace |-> tr]

\* variant: the pressure trace is tagged with the suffix of its file
WritesPressureTaggedH ==
    <<Written(update_stats(select(sth, "Z")[1], "Z"), fileZ)>>
    \o (IF "H" \in opts.channels
        THEN <<Written(update_stats(select(sth, "1")[1], "1"), file1),
               Written(update_stats(select(sth, "2")[1], "2"), file2)>>
        ELSE <<>>)
    \o (IF "P" \in opts.channels
        THEN <<Written(update_stats(stp.traces[1], "H"), fileP)>>
        ELSE <<>>)

\* variant: the pressure trace is not written
WritesSeismicOnly ==
    <<Written(update_stats(select(sth, "Z")[1], "Z"), fileZ)>>
    \o (IF "H" \in opts.channels
        THEN <<Written(update_stats(select(sth, "1")[1], "1"), file1),
               Written(update_stats(select(sth, "2")[1], "2"), file2)>>
        ELSE <<>>)

\* lines 398-416: Z, then 1 and 2 if "H" is selected, then P if "P" is selected
Writes ==
    <<Written(update_stats(select(sth, "Z")[1], "Z"), fileZ)>>
    \o (IF "H" \in opts.channels
        THEN <<Written(update_stats(select(sth, "1")[1], "1"), file1),
               Written(update_stats(select(sth, "2")[1], "2"), file2)>>
        ELSE <<>>)
    \o (IF "P" \in opts.channels
        THEN <<Written(update_stats(stp.traces[1], "P"), fileP)>>
        ELSE <<>>)

WriteFiles ==
    /\ pc = "write"
    /\ wrote' = Writes
    /\ fs' = fs \cup {Writes[i].path : i \in 1..Len(Writes)}
    /\ outcome' = "WRITTEN"
    /\ NextDay
    /\ UNCHANGED <<win, reqs, fetched>>
    /\ Frame

-----------------------------------------------------------------------------

Next ==
    \/ ProgramEnd
    \/ StationSkipped
    \/ StationBegin
    \/ WhileExit
    \/ SkipExisting
    \/ BeginDay
    \/ GetSeismic
    \/ GetSeismicFails
    \/ GetPressure
    \/ GetPressureFails
    \/ LengthsRaise
    \/ LengthsDiffer
    \/ LengthTooShort
    \/ LengthsOk
    \/ PreprocessStep
    \/ PreprocessRaises
    \/ WriteFiles

Spec == Init /\ [][Next]_vars

-----------------------------------------------------------------------------
(* Vocabulary of the properties *)

\* positions of the script inside the day loop of the current station
DayLoop == {"while", "get_sth", "get_stp", "lengths", "preprocess", "write"}

\* components the selected channel set needs from the seismic stream
RequiredSeismic == IF opts.channels = {"P"} THEN {"Z"} ELSE {"Z", "1", "2"}

NeedsPressure == "P" \in opts.channels

\* file suffixes of the selected channel set
ExpectedSuffixes == RequiredSeismic \cup (IF NeedsPressure THEN {"H"} ELSE {})

TracesOf(st) == {st.traces[i] : i \in 1..Len(st.traces)}

\* the traces returned by the calls of one kind in the iteration last started
Fetched(kind) ==
    IF kind = "seismic" THEN TracesOf(fetched.sth) ELSE TracesOf(fetched.stp)

\* the fetched traces of the components the channel set requires
RequiredFetched ==
    {tr \in Fetched("seismic") : tr.component \in RequiredSeismic}
        \cup (IF NeedsPressure THEN Fetched("pressure") ELSE {})

\* every required component is among the fetched traces
AllFetched ==
    /\ \A c \in RequiredSeismic : \E tr \in Fetched("seismic") : tr.component = c
    /\ NeedsPressure => Fetched("pressure") # {}

\* the sampling rate of the data as fetched, read from the seismic stream, and
\* from the pressure stream when only "P" is selected (lines 257, 312, 369)
OriginalRates ==
    {tr.sampling_rate :
        tr \in Fetched(IF opts.channels = {"P"} THEN "pressure" ELSE "seismic")}

\* int(86400 * sampling rate), rates being in mHz
FullDay(r) == (86400 * r) \div 1000

WithinOne(n, m) == n - m \in {-1, 0, 1}

\* the paths written in the iteration last started
WrittenPaths == {wrote[i].path : i \in 1..Len(wrote)}

\* the component letter of a SAC path: the character before ".SAC"
Suffix(path) == path[Len(path) - 4]

-----------------------------------------------------------------------------
(* C1 *)

\* the bundle of the iteration last started passed every check
Validated ==
    /\ Len(reqs) = (IF NeedsPressure THEN 2 ELSE 1)
    /\ \A k \in 1..Len(reqs) : reqs[k].ok
    /\ AllFetched
    /\ \A a, b \in RequiredFetched : a.npts = b.npts
    /\ \A tr \in RequiredFetched : \A r \in OriginalRates :
          WithinOne(tr.npts, FullDay(r))

\* C1: in every channel-set mode, files are written in an iteration only if
\* every required component was fetched without error, all required
\* components have the same sample count, and that count is within one of
\* int(86400 * sampling rate of the fetched data); an iteration that ends in
\* a fetch failure or a validation failure has written nothing.
C1_WrittenOnlyIfValidated ==
    /\ wrote # <<>> => Validated /\ outcome = "WRITTEN"
    /\ outcome \in {"FETCH_FAILED", "VALIDATION_FAILED"} => wrote = <<>>

\* a day of the "both" mode is written with every trace one sample short
C1_Witness ==
    /\ opts.channels = {"H", "P"}
    /\ outcome = "WRITTEN"
    /\ Len(wrote) = 4
    /\ \A tr \in RequiredFetched : tr.npts = FullDay(tr.sampling_rate) - 1

-----------------------------------------------------------------------------
(* C2 *)

\* C2: when a fetched bundle lacks a required component, the day is rejected
\* like any other mismatch: nothing is written, the cursor advances by one
\* day and the loop goes on with the next day window.
C2_MissingComponentSkipsDay ==
    [][(pc = "lengths" /\ ~AllFetched)
          => /\ pc' = "while"
             /\ t1' = t1 + dt /\ t2' = t2 + dt
             /\ wrote' = <<>> /\ fs' = fs]_vars

-----------------------------------------------------------------------------
(* C3 *)

\* the output files the selected channel set expects for the current window
ExpectedFiles == {FileName(stkey, t1, c) : c \in ExpectedSuffixes}

\* C3: at the head of every day window the pre-existence check comes first:
\* if all expected files of the mode exist and overwrite is false the window
\* is skipped with no request and no write; otherwise the skip is not taken
\* and the next thing the script does is the seismic get_waveforms call.
C3_ExistenceCheckBeforeRequest ==
    [][/\ (pc = "while" /\ t2 <= tend)
            => IF ExpectedFiles \subseteq fs /\ ~opts.ovr
               THEN /\ outcome' = "SKIPPED_EXISTING"
                    /\ reqs' = <<>> /\ wrote' = <<>> /\ fs' = fs
                    /\ pc' = "while"
               ELSE /\ outcome' = "PENDING"
                    /\ reqs' = <<>> /\ wrote' = <<>> /\ fs' = fs
                    /\ pc' = "get_sth"
       /\ (pc = "get_sth")
            => /\ Len(reqs') = 1
               /\ reqs'[1].kind = "seismic"
               /\ reqs'[1].starttime = win[1] /\ reqs'[1].endtime = win[2]
       /\ (reqs' # reqs /\ reqs' # <<>>) => pc \in {"get_sth", "get_stp"}]_vars

\* a day after the first of the search is skipped because its files exist
C3_Witness ==
    /\ outcome = "SKIPPED_EXISTING"
    /\ reqs = <<>>
    /\ ~opts.ovr
    /\ win[1] > tstart

\* a day whose files all exist is downloaded again because overwrite is set
C3_WitnessOverwrite ==
    /\ pc = "lengths"
    /\ opts.ovr
    /\ ExpectedFiles \subseteq fs

-----------------------------------------------------------------------------
(* C4 *)

\* C4: with no --end the search of a station ends at the station's end date,
\* and with no --start it begins at the station's start date.
C4_DefaultsAreStationDates ==
    pc \in DayLoop =>
        /\ opts.endT = NoTime => tend = sta.enddate
        /\ opts.startT = NoTime => tstart = sta.startdate

-----------------------------------------------------------------------------
(* C5 *)

\* the range asked for: the overrides, else the station's own dates
RequestedStart(s) == IF opts.startT = NoTime THEN s.startdate ELSE opts.startT
RequestedEnd(s) == IF opts.endT = NoTime THEN s.enddate ELSE opts.endT

Disjoint(s) == RequestedStart(s) > s.enddate \/ RequestedEnd(s) < s.startdate

\* C5: for a station whose requested range does not intersect its lifetime
\* the day loop is never entered and no get_waveforms call is made.
C5_NoRequestOutsideLifetime ==
    /\ [](pc \in DayLoop => ~Disjoint(sta))
    /\ [][(reqs' # reqs /\ reqs' # <<>>) => (pc \in DayLoop /\ ~Disjoint(sta))]_vars

\* the station before the current one was left without entering its day loop
C5_Witness ==
    /\ pc = "for"
    /\ ik > 1
    /\ Disjoint(db[stkeys[ik - 1]])
    /\ tstart = RequestedStart(db[stkeys[ik - 1]])
    /\ client = ik - 1

-----------------------------------------------------------------------------
(* C6 *)

SameCounts == \A a, b \in RequiredFetched : a.npts = b.npts

\* C6: a fetched bundle whose required components all have the same sample
\* count n is accepted if and only if |n - int(86400 * sampling rate)| <= 1.
C6_AcceptedIffWithinOne ==
    [][(pc = "lengths" /\ AllFetched /\ SameCounts)
          => IF \A tr \in RequiredFetched : \A r \in OriginalRates :
                    WithinOne(tr.npts, FullDay(r))
             THEN pc' = "preprocess" /\ outcome' = "PENDING"
             ELSE pc' = "while" /\ outcome' = "VALIDATION_FAILED"]_vars

\* a bundle one sample longer than int(86400 * 1.001) has been accepted
C6_Witness ==
    /\ pc = "preprocess"
    /\ pstep = 1
    /\ \A tr \in RequiredFetched :
          tr.sampling_rate = 1001 /\ tr.npts = FullDay(1001) + 1

-----------------------------------------------------------------------------
(* C7 *)

\* C7: when the seismic or the pressure request raises, nothing is written
\* for that day, the cursor advances by one day and the script is back at the
\* head of the day loop.
C7_FetchFailureSkipsDay ==
    [][(Len(reqs') = Len(reqs) + 1 /\ ~reqs'[Len(reqs')].ok)
          => /\ wrote' = <<>> /\ fs' = fs
             /\ outcome' = "FETCH_FAILED"
             /\ t1' = t1 + dt /\ t2' = t2 + dt
             /\ pc' = "while"]_vars

\* the pressure request raised after the seismic one returned, and another
\* day window follows
C7_Witness ==
    /\ outcome = "FETCH_FAILED"
    /\ Len(reqs) = 2 /\ reqs[1].ok /\ ~reqs[2].ok
    /\ pc = "while"
    /\ t2 <= tend

-----------------------------------------------------------------------------
(* C8 *)

\* the station key of the iteration last started: network.station
IterationKey == reqs[1].network \o <<".">> \o reqs[1].station

\* '<CH>1,<CH>2,<CH>Z' for the two stations of the database
ThreeChannels(key) ==
    IF key = KeyA
    THEN <<"B", "H", "1", ",", "B", "H", "2", ",", "B", "H", "Z">>
    ELSE <<"H", "H", "1", ",", "H", "H", "2", ",", "H", "H", "Z">>

\* C8: in H-only mode a day that is not skipped gets exactly one
\* get_waveforms call, for '<CH>1,<CH>2,<CH>Z', and no pressure request; an
\* accepted day gets exactly three files, for 1, 2 and Z.
C8_HOnlyOneRequestThreeFiles ==
    opts.channels = {"H"} =>
        /\ Len(reqs) <= 1
        /\ \A k \in 1..Len(reqs) :
              reqs[k].kind = "seismic" /\ reqs[k].channel = ThreeChannels(IterationKey)
        /\ (pc \in {"lengths", "preprocess", "write"}
              \/ outcome \in {"FETCH_FAILED", "VALIDATION_FAILED", "WRITTEN", "RAISED"})
             => Len(reqs) = 1
        /\ outcome = "WRITTEN" =>
              /\ Len(wrote) = 3
              /\ Cardinality(WrittenPaths) = 3
              /\ {Suffix(f) : f \in WrittenPaths} = {"1", "2", "Z"}

\* a day of station B, whose channel code is stored in lower case, is written
C8_Witness ==
    /\ opts.channels = {"H"}
    /\ outcome = "WRITTEN"
    /\ IterationKey = KeyB

-----------------------------------------------------------------------------
(* C9 *)

\* DATA/<key>/<yyyy>.<ddd>.<channel><component>.SAC
ClaimedPath(key, t, c) ==
    <<"D", "A", "T", "A", "/">> \o key \o <<"/">>
        \o zfill(str(year(t)), 4) \o <<".">> \o zfill(str(julday(t)), 3)
        \o <<".">> \o db[key].channel \o <<c>> \o <<".", "S", "A", "C">>

\* C9: every output file is DATA/<key>/<year>.<julian-day>.<channel-prefix>
\* <component>.SAC with a 4-digit year, a 3-digit day, exactly one '.' between
\* the day and the channel prefix, and a component among 1, 2, Z, H.
C9_PathForm ==
    \A f \in WrittenPaths :
        \E c \in {"1", "2", "Z", "H"} : f = ClaimedPath(IterationKey, win[1], c)

-----------------------------------------------------------------------------
(* C10 *)

\* the path up to and including its last '/'
ParentDir(f) ==
    SubSeq(f, 1, CHOOSE i \in 1..Len(f) :
                    f[i] = "/" /\ \A j \in (i + 1)..Len(f) : f[j] # "/")

Tags == {wrote[i].trace.tag : i \in 1..Len(wrote)}

InStationDir ==
    \A f \in WrittenPaths :
        ParentDir(f) = <<"D", "A", "T", "A", "/">> \o IterationKey \o <<"/">>

-----------------------------------------------------------------------------
(* C11 *)

\* a step that ends a pass of the day loop without ending the run
EndsPass == pc \in DayLoop /\ pc' = "while"

\* C11: on every exit path of a pass of the day loop that does not end the
\* run, t1 and t2 both grow by 86400 s exactly once; so t2 = t1 + 86400 at
\* every position of the loop and the k-th window starts at tstart + k * 86400.
C11_CursorAdvancesOneDay ==
    /\ [](pc \in DayLoop => (t2 = t1 + 86400 /\ t1 = tstart + iters * 86400))
    /\ [][EndsPass => /\ t1' = t1 + 86400
                      /\ t2' = t2 + 86400
                      /\ iters' = iters + 1
                      /\ outcome' \in {"SKIPPED_EXISTING", "FETCH_FAILED",
                                       "VALIDATION_FAILED", "WRITTEN"}]_vars

\* the second pass of a station ended on unequal or out-of-tolerance lengths
C11_Witness ==
    /\ pc = "while"
    /\ iters = 2
    /\ outcome = "VALIDATION_FAILED"
    /\ win = <<tstart + 86400, tstart + 2 * 86400>>

-----------------------------------------------------------------------------
(* C12 *)

\* the stations of the list that come after the current one and are not it
OtherStationsLeft == {j \in (ik + 1)..Len(stkeys) : stkeys[j] # stkey}

\* the run has ended in the length reads of a day (lines 247-249, 303-304,
\* 358-361), before any preprocessing call
StoppedOnDayFailure == pc = "raised" /\ pstep = 0

\* C12: stations are processed independently: a failure on a day of one
\* station never prevents or changes the processing of another station, so
\* the run never stops on a day's failure while another station is still
\* waiting for its turn.
C12_FailureNeverStopsOtherStations ==
    StoppedOnDayFailure => OtherStationsLeft = {}

-----------------------------------------------------------------------------
(* C13 *)

\* the order the claim gives for the steps of one stream
Pipeline == <<"remove_response", "demean", "linear", "lowpass", "resample">>

\* the names of the steps a stream has been through, in order
StepsOf(st) == [i \in 1..Len(st.ops) |-> st.ops[i].op]

IsPrefix(s, t) == Len(s) <= Len(t) /\ \A i \in 1..Len(s) : s[i] = t[i]

\* the streams the mode preprocesses
Preprocessed == {sth} \cup (IF "P" \in opts.channels THEN {stp} ELSE {})

\* the low-pass call got half the target rate, the resample call the target rate
RatesAsClaimed(st) ==
    \A i \in 1..Len(st.ops) :
        /\ st.ops[i].op = "lowpass" => 2 * st.ops[i].args[1] = new_sampling_rate
        /\ st.ops[i].op = "resample" => st.ops[i].args[1] = new_sampling_rate

\* C13: each stream of an accepted window goes through remove-response,
\* demean, linear detrend, low-pass at half the target rate and resample to
\* the target rate, in that order, and all steps of all streams are complete
\* before the first file of the window is written.
C13_PipelineOrderThenWrite ==
    /\ [](\A st \in {sth, stp} :
             IsPrefix(StepsOf(st), Pipeline) /\ RatesAsClaimed(st))
    /\ [](pc = "write" => \A st \in Preprocessed : StepsOf(st) = Pipeline)
    /\ [][fs' # fs \/ (wrote' # wrote /\ wrote' # <<>>)
          => /\ pc = "write"
             /\ \A st \in Preprocessed : StepsOf(st) = Pipeline
             /\ \A i \in 1..Len(wrote') :
                    wrote'[i].trace.sampling_rate = new_sampling_rate]_vars

\* both streams of a window of the H-and-P mode are through all five steps
C13_Witness ==
    /\ pc = "write"
    /\ opts.channels = {"H", "P"}
    /\ StepsOf(sth) = Pipeline
    /\ StepsOf(stp) = Pipeline
    /\ Len(sth.traces) = 3

-----------------------------------------------------------------------------
(* C14 *)

\* the run has ended inside the preprocessing calls of a window
StoppedInPreprocessing == pc = "raised" /\ pstep >= 1

\* C14: a failure of a preprocessing call of an accepted window is not
\* caught: the run ends there, no file of that window has been written, and
\* no later window and no later station is processed.
C14_PreprocessFailureEndsRun ==
    /\ [][pc = "preprocess" /\ pc' \notin {"preprocess", "write"}
          => /\ pc' = "raised"
             /\ wrote' = <<>>
             /\ fs' = fs
             /\ <<t1, t2, ik, reqs>>' = <<t1, t2, ik, reqs>>]_vars
    /\ [](StoppedInPreprocessing =>
             /\ wrote = <<>>
             /\ win = <<t1, t2>>
             /\ pstep <= Len(PreprocessCalls)
             /\ \E st \in Preprocessed : StepsOf(st) # Pipeline)
    /\ [][pc # "raised"]_vars

\* the run ended in a preprocessing call while a later day of the station
\* and a later station were still to come
C14_Witness ==
    /\ StoppedInPreprocessing
    /\ t2 + 86400 <= tend
    /\ OtherStationsLeft # {}
    /\ Len(sth.ops) >= 1

-----------------------------------------------------------------------------
(* C15 *)

\* a step that leaves a station before its day loop
LeavesStation == pc = "for" /\ pc' = "for" /\ ik' = ik + 1

\* C15: a station whose requested range lies outside its lifetime is skipped
\* with no effect: no DATA/<key>/ directory is created, no file is written,
\* no client is established and the location list is not modified.
C15_SkippedStationLeavesNoTrace ==
    [][LeavesStation => /\ dirs' = dirs
                        /\ fs' = fs
                        /\ client' = client
                        /\ location' = location]_vars

-----------------------------------------------------------------------------
(* C16 *)

\* the requests of the window last started, by kind
RequestsOf(kind) == {i \in 1..Len(reqs) : reqs[i].kind = kind}

\* a pass of the day loop ends on a failed request or a failed length check
EndsPassFailed ==
    EndsPass /\ outcome' \in {"FETCH_FAILED", "VALIDATION_FAILED"}

\* the cursor does not go back, and a window that starts is the cursor's
CursorForward ==
    /\ t1' >= t1
    /\ win' # win => win' = <<t1, t2>>

\* C16: no retry within a run: per station pass and window the seismic
\* request is issued at most once and the pressure request at most once; the
\* pressure request is issued only in the P-only and H-and-P modes and only
\* after the seismic request of the same window returned; and a window that
\* failed is not visited again in the same pass.
C16_NoRetry ==
    /\ [](/\ Cardinality(RequestsOf("seismic")) <= 1
          /\ Cardinality(RequestsOf("pressure")) <= 1
          /\ \A i \in 1..Len(reqs) :
                 <<reqs[i].starttime, reqs[i].endtime>> = win
          /\ \A i \in RequestsOf("pressure") :
                 /\ "P" \in opts.channels
                 /\ \E j \in 1..(i - 1) : reqs[j].kind = "seismic" /\ reqs[j].ok)
    /\ [][EndsPassFailed => t1' >= win[2]]_vars
    /\ [][(pc \in DayLoop /\ pc' \in DayLoop) => CursorForward]_vars

\* the second window of a pass: its seismic request returned, its pressure
\* request failed, each was issued once
C16_Witness ==
    /\ pc = "while"
    /\ iters = 2
    /\ outcome = "FETCH_FAILED"
    /\ Len(reqs) = 2
    /\ reqs[1].ok /\ ~reqs[2].ok
    /\ win[1] = tstart + 86400

-----------------------------------------------------------------------------
(* C17 *)

\* the files the pre-existence check of the mode looks for, for the window
\* at the cursor
RequiredByCheck ==
    IF HOnly THEN {fileZ, file1, file2}
    ELSE IF POnly THEN {fileZ, fileP}
    ELSE {fileZ, file1, file2, fileP}

\* the step that writes the files of an accepted window
WritesWindow == pc = "write" /\ pc' # "write"

\* the cursor is on a window whose files are all there and overwrite is off
SameWindowAgain ==
    pc = "while" /\ t2 <= tend /\ ~opts.ovr /\ RequiredByCheck \subseteq fs

\* C17: in each mode the files written for an accepted window are the
\* files the pre-existence check of that mode asks for, so once a window is
\* WRITTEN, coming to the same window again in the same mode with overwrite
\* off issues no request and writes nothing.
C17_WrittenFilesAreCheckedFiles ==
    /\ [](pc \in DayLoop => (FilesExist <=> RequiredByCheck \subseteq fs))
    /\ [][WritesWindow => /\ {wrote'[i].path : i \in 1..Len(wrote')}
                             = RequiredByCheck
                          /\ fs' = fs \cup RequiredByCheck
                          /\ outcome' = "WRITTEN"]_vars
    /\ [][fs \subseteq fs']_vars
    /\ [][SameWindowAgain => /\ outcome' = "SKIPPED_EXISTING"
                             /\ reqs' = <<>>
                             /\ wrote' = <<>>
                             /\ fs' = fs]_vars

\* the second pass over a station listed twice skips a day whose files did
\* not exist before the run
C17_Witness ==
    /\ ik = 2
    /\ stkeys[1] = stkeys[2]
    /\ ~opts.ovr
    /\ outcome = "SKIPPED_EXISTING"
    /\ reqs = <<>>
    /\ win = <<0, 86400>>
    /\ {FileName(stkey, 0, c) : c \in ExpectedSuffixes} \subseteq fs

-----------------------------------------------------------------------------
(* C18 *)

Max(a, b) == IF a >= b THEN a ELSE b

\* max(0, floor((tend - tstart) / 86400)) for the station's effective range
LoopCount == Max(0, (tend - tstart) \div 86400)

\* the step that leaves the day loop of a station
LeavesLoop == pc = "while" /\ pc' = "for"

\* an upper bound on the steps the current pass still takes
StepsLeft ==
    CASE pc = "while" -> Len(PreprocessCalls) + 5
      [] pc = "get_sth" -> Len(PreprocessCalls) + 4
      [] pc = "get_stp" -> Len(PreprocessCalls) + 3
      [] pc = "lengths" -> Len(PreprocessCalls) + 2
      [] pc = "preprocess" -> Len(PreprocessCalls) + 2 - pstep
      [] pc = "write" -> 0
      [] OTHER -> 0

\* an upper bound on the steps the day loop of the station still takes
Variant == (LoopCount - iters) * (Len(PreprocessCalls) + 6) + StepsLeft

\* C18: whatever the requests return, as long as nothing uncaught is raised,
\* the day loop of a station ends after exactly
\* max(0, floor((tend - tstart) / 86400)) passes, and after none when
\* tend - tstart is less than a day.
C18_LoopRunsFloorDaysTimes ==
    /\ [](pc \in DayLoop =>
             /\ iters <= LoopCount
             /\ pc # "while" => iters < LoopCount
             /\ Variant >= 0
             /\ tend - tstart < 86400 => (iters = 0 /\ pc = "while"))
    /\ [][LeavesLoop => iters = LoopCount]_vars
    /\ [][(pc \in DayLoop /\ pc' \in DayLoop) => Variant' < Variant]_vars

\* a range of a day and a half: the loop has been left after one pass
C18_Witness ==
    /\ pc = "for"
    /\ ik = 2
    /\ tend - tstart = 86400 + 43200
    /\ iters = 1
    /\ outcome # "NONE"

-----------------------------------------------------------------------------
(* C19 *)

\* the keys of the database
AllKeys == {allkeys[i] : i \in 1..Len(allkeys)}

\* the keys that contain at least one of the filter strings
MatchingKeys ==
    {k \in AllKeys :
        \E i \in 1..Len(opts.stkeys) : IsSubstring(opts.stkeys[i], k)}

\* the keys the station loop goes through
ListedKeys == {stkeys[i] : i \in 1..Len(stkeys)}

\* the station in the day loop has had no turn before
FirstTurn == \A j \in 1..(ik - 1) : stkeys[j] # stkeys[ik]

\* C19: with a filter the stations processed are the keys that contain one
\* of the filter strings, each processed at most once even if it matches
\* several strings; with no filter every key is processed once.
C19_EachSelectedStationOnce ==
    /\ ListedKeys = (IF Len(opts.stkeys) > 0 THEN MatchingKeys ELSE AllKeys)
    /\ pc \in DayLoop => FirstTurn

====
